---- MODULE Spec2Model ----
(***************************************************************************)
(* The in-memory store of server/storage.ts (class MemStorage) as a state  *)
(* machine: one variable per Map, one action per mutating method, one      *)
(* state function per read method.                                         *)
(***************************************************************************)
EXTENDS Integers, Sequences, FiniteSets, TLC

VARIABLES users, athletes, exercises, trainingSessions, events, galleryItems,
          bestOfWeeks, liveStreams,
          uuidCount, now, lastCall, created, deleted, calls, touched

containers == <<users, athletes, exercises, trainingSessions, events,
                galleryItems, bestOfWeeks, liveStreams>>
vars == <<users, athletes, exercises, trainingSessions, events, galleryItems,
          bestOfWeeks, liveStreams,
          uuidCount, now, lastCall, created, deleted, calls, touched>>

(***************************************************************************)
(* Bounds of the exploration.                                              *)
(***************************************************************************)
\* store method calls in one behaviour
MaxCalls == 2
\* entity kinds whose methods are called in one behaviour
MaxKinds == 1
\* the clock runs over 0..MaxTime
MaxTime == 1
\* the resolution of the clock: time values in one day
TicksPerDay == 2
\* getStartOfWeek is applied to the timestamps of one week before the
\* construction of the store and of MaxWeeks weeks after it
MaxWeeks == 3

(***************************************************************************)
(* JavaScript values.  Every value carries its type tag, so that values of *)
(* different types can be compared: t is the type, s the text of a string, *)
(* n the time value of a Date, the serial of a generated UUID or of a      *)
(* sample object.                                                          *)
(***************************************************************************)
S(x) == [t |-> "string", s |-> x, n |-> 0]
D(ms) == [t |-> "date", s |-> "", n |-> ms]
B(b) == [t |-> "boolean", s |-> IF b THEN "true" ELSE "false", n |-> 0]
O(k) == [t |-> "object", s |-> "", n |-> k]
Uuid(k) == [t |-> "string", s |-> "uuid", n |-> k]
Null == [t |-> "null", s |-> "", n |-> 0]
Undefined == [t |-> "undefined", s |-> "", n |-> 0]

\* the falsy values among the modelled ones: undefined, null, "", false
Truthy(v) == v \notin {Undefined, Null, S(""), B(FALSE)}
\* a || b
Or(a, b) == IF Truthy(a) THEN a ELSE b
\* o.f, undefined when o has no property f
Prop(o, f) == IF f \in DOMAIN o THEN o[f] ELSE Undefined
\* { ...a, ...b }
Spread(a, b) == [f \in (DOMAIN a) \cup (DOMAIN b) |->
                    IF f \in DOMAIN b THEN b[f] ELSE a[f]]
\* the object literal {}
EmptyObj == [f \in {} |-> Null]

(***************************************************************************)
(* Map<string, T>: the entries in insertion order.                         *)
(***************************************************************************)
MapIndex(m, k) == {i \in 1..Len(m) : m[i].key = k}
MapHas(m, k) == MapIndex(m, k) # {}
MapGet(m, k) == IF MapHas(m, k) THEN m[CHOOSE i \in MapIndex(m, k) : TRUE].val
                ELSE Undefined
MapSet(m, k, v) == IF MapHas(m, k)
                   THEN [i \in 1..Len(m) |->
                           IF m[i].key = k THEN [key |-> k, val |-> v] ELSE m[i]]
                   ELSE Append(m, [key |-> k, val |-> v])
MapDelete(m, k) == SelectSeq(m, LAMBDA e : e.key # k)
MapKeys(m) == {m[i].key : i \in 1..Len(m)}
\* Array.from(m.values())
MapValues(m) == [i \in 1..Len(m) |-> m[i].val]
\* Array.prototype.filter is SelectSeq; Array.prototype.find returns the
\* first element that passes the test, undefined when there is none
First(matches) == IF matches = <<>> THEN Undefined ELSE Head(matches)
Elems(a) == {a[i] : i \in 1..Len(a)}

(***************************************************************************)
(* Bookkeeping common to the store's methods: the call and its result are  *)
(* recorded, randomUUID() hands out the next unused identifier.            *)
(***************************************************************************)
randomUUID == Uuid(uuidCount + 1)

Called(kind, op, id, arg, ret) ==
    /\ calls < MaxCalls
    /\ Cardinality(touched \cup {kind}) <= MaxKinds
    /\ calls' = calls + 1
    /\ touched' = touched \cup {kind}
    /\ lastCall' = [kind |-> kind, op |-> op, id |-> id, arg |-> arg, ret |-> ret]
    /\ now' = now

Creates(kind, id) ==
    /\ uuidCount' = uuidCount + 1
    /\ created' = created \cup {<<kind, id>>}
    /\ deleted' = deleted

Updates ==
    /\ UNCHANGED <<uuidCount, created, deleted>>

Deletes(kind, id) ==
    /\ deleted' = deleted \cup {<<kind, id>>}
    /\ UNCHANGED <<uuidCount, created>>

\* an identifier that randomUUID() never returns
unknownId == Uuid(0)

\* the identifiers a caller may pass: those in the container, those deleted
\* from it and the one that is never generated
Ids(kind, m) == MapKeys(m) \cup {d[2] : d \in {e \in deleted : e[1] = kind}}
                  \cup {unknownId}

(***************************************************************************)
(* Seeding.                                                                *)
(***************************************************************************)
adminUser ==
    [id |-> Uuid(1), username |-> S("admin"), email |-> S("admin@lions.com"),
     password |-> S("admin123"), role |-> S("admin"),
     fullName |-> S("Administrador Lions"), profilePicture |-> Null,
     position |-> Null, createdAt |-> D(0)]
athleteUser ==
    [id |-> Uuid(2), username |-> S("joao"), email |-> S("joao@lions.com"),
     password |-> S("athlete123"), role |-> S("athlete"),
     fullName |-> S("Joao Silva"), profilePicture |-> Null,
     position |-> S("Ala"), createdAt |-> D(0)]
seedAthlete ==
    [id |-> Uuid(3), userId |-> Uuid(2), height |-> S("1.85m"),
     weight |-> S("78kg"), sleepHours |-> S("7.5"),
     overallPerformance |-> S("85.50"), lastTraining |-> D(0)]

\* initializeDefaultData without the athlete profile of joao
initializeDefaultData_NoProfile ==
    /\ users = MapSet(MapSet(<<>>, Uuid(1), adminUser), Uuid(2), athleteUser)
    /\ athletes = <<>>
    /\ uuidCount = 2

initializeDefaultData ==
    /\ users = MapSet(MapSet(<<>>, Uuid(1), adminUser), Uuid(2), athleteUser)
    /\ athletes = MapSet(<<>>, Uuid(3), seedAthlete)
    /\ uuidCount = 3

Init ==
    /\ now = 0
    /\ exercises = <<>>
    /\ trainingSessions = <<>>
    /\ events = <<>>
    /\ galleryItems = <<>>
    /\ bestOfWeeks = <<>>
    /\ liveStreams = <<>>
    /\ initializeDefaultData
    /\ lastCall = [kind |-> "", op |-> "constructor", id |-> Undefined,
                   arg |-> EmptyObj, ret |-> Undefined]
    /\ created = {}
    /\ deleted = {}
    /\ calls = 0
    /\ touched = {}

(***************************************************************************)
(* Users.                                                                  *)
(***************************************************************************)
getUser(id) == MapGet(users, id)
\* getUserByUsername returning the latest inserted match
getUserByUsername_Last(username) ==
    LET matches == SelectSeq(MapValues(users),
                             LAMBDA user : user.username = username)
    IN IF matches = <<>> THEN Undefined ELSE matches[Len(matches)]

getUserByUsername(username) ==
    First(SelectSeq(MapValues(users), LAMBDA user : user.username = username))
getUserByEmail(email) ==
    First(SelectSeq(MapValues(users), LAMBDA user : user.email = email))

newUser(insertUser, id) ==
    Spread(insertUser,
           [id |-> id,
            role |-> Or(Prop(insertUser, "role"), S("athlete")),
            profilePicture |-> Or(Prop(insertUser, "profilePicture"), Null),
            position |-> Or(Prop(insertUser, "position"), Null),
            createdAt |-> D(now)])

createUser(insertUser) ==
    LET id == randomUUID
        user == newUser(insertUser, id)
    IN /\ Called("User", "create", id, insertUser, user)
       /\ users' = MapSet(users, id, user)
       /\ Creates("User", id)
       /\ UNCHANGED <<athletes, exercises, trainingSessions, events,
                      galleryItems, bestOfWeeks, liveStreams>>

\* updateUser without the not-found return: an absent id is inserted
updateUser_Upsert(id, updates) ==
    LET user == MapGet(users, id)
        updatedUser == IF user = Undefined THEN updates ELSE Spread(user, updates)
    IN /\ Called("User", "update", id, updates, updatedUser)
       /\ users' = MapSet(users, id, updatedUser)
       /\ Updates
       /\ UNCHANGED <<athletes, exercises, trainingSessions, events,
                      galleryItems, bestOfWeeks, liveStreams>>

updateUser(id, updates) ==
    LET user == MapGet(users, id)
        updatedUser == Spread(user, updates)
    IN /\ IF user = Undefined
          THEN /\ users' = users
               /\ Called("User", "update", id, updates, Undefined)
          ELSE /\ users' = MapSet(users, id, updatedUser)
               /\ Called("User", "update", id, updates, updatedUser)
       /\ Updates
       /\ UNCHANGED <<athletes, exercises, trainingSessions, events,
                      galleryItems, bestOfWeeks, liveStreams>>

(***************************************************************************)
(* Athletes.                                                               *)
(***************************************************************************)
getAthlete(id) == MapGet(athletes, id)
getAthleteByUserId(userId) ==
    First(SelectSeq(MapValues(athletes),
                    LAMBDA athlete : athlete.userId = userId))
getAllAthletes == MapValues(athletes)

newAthlete(insertAthlete, id) ==
    Spread(insertAthlete,
           [id |-> id,
            height |-> Or(Prop(insertAthlete, "height"), Null),
            weight |-> Or(Prop(insertAthlete, "weight"), Null),
            sleepHours |-> Or(Prop(insertAthlete, "sleepHours"), Null),
            overallPerformance |->
                Or(Prop(insertAthlete, "overallPerformance"), Null),
            lastTraining |-> Or(Prop(insertAthlete, "lastTraining"), Null)])

\* createAthlete storing the input under the id, without the filled fields
createAthlete_StoresInput(insertAthlete) ==
    LET id == randomUUID
        athlete == newAthlete(insertAthlete, id)
    IN /\ Called("Athlete", "create", id, insertAthlete, athlete)
       /\ athletes' = MapSet(athletes, id, Spread(insertAthlete, [id |-> id]))
       /\ Creates("Athlete", id)
       /\ UNCHANGED <<users, exercises, trainingSessions, events,
                      galleryItems, bestOfWeeks, liveStreams>>

createAthlete(insertAthlete) ==
    LET id == randomUUID
        athlete == newAthlete(insertAthlete, id)
    IN /\ Called("Athlete", "create", id, insertAthlete, athlete)
       /\ athletes' = MapSet(athletes, id, athlete)
       /\ Creates("Athlete", id)
       /\ UNCHANGED <<users, exercises, trainingSessions, events,
                      galleryItems, bestOfWeeks, liveStreams>>

\* updateAthlete spreading in the other order: { ...updates, ...athlete }
updateAthlete_Reversed(id, updates) ==
    LET athlete == MapGet(athletes, id)
        updatedAthlete == Spread(updates, athlete)
    IN /\ IF athlete = Undefined
          THEN /\ athletes' = athletes
               /\ Called("Athlete", "update", id, updates, Undefined)
          ELSE /\ athletes' = MapSet(athletes, id, updatedAthlete)
               /\ Called("Athlete", "update", id, updates, updatedAthlete)
       /\ Updates
       /\ UNCHANGED <<users, exercises, trainingSessions, events,
                      galleryItems, bestOfWeeks, liveStreams>>

updateAthlete(id, updates) ==
    LET athlete == MapGet(athletes, id)
        updatedAthlete == Spread(athlete, updates)
    IN /\ IF athlete = Undefined
          THEN /\ athletes' = athletes
               /\ Called("Athlete", "update", id, updates, Undefined)
          ELSE /\ athletes' = MapSet(athletes, id, updatedAthlete)
               /\ Called("Athlete", "update", id, updates, updatedAthlete)
       /\ Updates
       /\ UNCHANGED <<users, exercises, trainingSessions, events,
                      galleryItems, bestOfWeeks, liveStreams>>

\* deleteAthlete reporting the record without removing it
deleteAthlete_KeepsRecord(id) ==
    /\ Called("Athlete", "delete", id, EmptyObj, B(MapHas(athletes, id)))
    /\ athletes' = athletes
    /\ Deletes("Athlete", id)
    /\ UNCHANGED <<users, exercises, trainingSessions, events,
                   galleryItems, bestOfWeeks, liveStreams>>

\* deleteAthlete cascading to the records that reference the athlete
deleteAthlete_Cascade(id) ==
    /\ Called("Athlete", "delete", id, EmptyObj, B(MapHas(athletes, id)))
    /\ athletes' = MapDelete(athletes, id)
    /\ trainingSessions' =
           SelectSeq(trainingSessions, LAMBDA e : e.val.athleteId # id)
    /\ bestOfWeeks' = SelectSeq(bestOfWeeks, LAMBDA e : e.val.athleteId # id)
    /\ Deletes("Athlete", id)
    /\ UNCHANGED <<users, exercises, events, galleryItems, liveStreams>>

deleteAthlete(id) ==
    /\ Called("Athlete", "delete", id, EmptyObj, B(MapHas(athletes, id)))
    /\ athletes' = MapDelete(athletes, id)
    /\ Deletes("Athlete", id)
    /\ UNCHANGED <<users, exercises, trainingSessions, events,
                   galleryItems, bestOfWeeks, liveStreams>>

(***************************************************************************)
(* Exercises.                                                              *)
(***************************************************************************)
getExercise(id) == MapGet(exercises, id)
\* getExercisesByCategory with find in place of filter: the first match only
getExercisesByCategory_FirstOnly(category) ==
    LET first == First(SelectSeq(MapValues(exercises),
                                 LAMBDA exercise : exercise.category = category))
    IN IF first = Undefined THEN <<>> ELSE <<first>>

getExercisesByCategory(category) ==
    SelectSeq(MapValues(exercises), LAMBDA exercise : exercise.category = category)

\* createExercise without the coercion of videoUrl
newExercise_NoVideoUrl(insertExercise, id) ==
    Spread(insertExercise,
           [id |-> id,
            description |-> Or(Prop(insertExercise, "description"), Null),
            metrics |-> Or(Prop(insertExercise, "metrics"), Null)])

newExercise(insertExercise, id) ==
    Spread(insertExercise,
           [id |-> id,
            description |-> Or(Prop(insertExercise, "description"), Null),
            videoUrl |-> Or(Prop(insertExercise, "videoUrl"), Null),
            metrics |-> Or(Prop(insertExercise, "metrics"), Null)])

createExercise(insertExercise) ==
    LET id == randomUUID
        exercise == newExercise(insertExercise, id)
    IN /\ Called("Exercise", "create", id, insertExercise, exercise)
       /\ exercises' = MapSet(exercises, id, exercise)
       /\ Creates("Exercise", id)
       /\ UNCHANGED <<users, athletes, trainingSessions, events,
                      galleryItems, bestOfWeeks, liveStreams>>

updateExercise(id, updates) ==
    LET exercise == MapGet(exercises, id)
        updatedExercise == Spread(exercise, updates)
    IN /\ IF exercise = Undefined
          THEN /\ exercises' = exercises
               /\ Called("Exercise", "update", id, updates, Undefined)
          ELSE /\ exercises' = MapSet(exercises, id, updatedExercise)
               /\ Called("Exercise", "update", id, updates, updatedExercise)
       /\ Updates
       /\ UNCHANGED <<users, athletes, trainingSessions, events,
                      galleryItems, bestOfWeeks, liveStreams>>

deleteExercise(id) ==
    /\ Called("Exercise", "delete", id, EmptyObj, B(MapHas(exercises, id)))
    /\ exercises' = MapDelete(exercises, id)
    /\ Deletes("Exercise", id)
    /\ UNCHANGED <<users, athletes, trainingSessions, events,
                   galleryItems, bestOfWeeks, liveStreams>>

(***************************************************************************)
(* Training sessions.                                                      *)
(***************************************************************************)
getTrainingSession(id) == MapGet(trainingSessions, id)

newTrainingSession(insertSession, id) ==
    Spread(insertSession,
           [id |-> id,
            results |-> Or(Prop(insertSession, "results"), Null),
            completedAt |-> D(now)])

createTrainingSession(insertSession) ==
    LET id == randomUUID
        session == newTrainingSession(insertSession, id)
    IN /\ Called("TrainingSession", "create", id, insertSession, session)
       /\ trainingSessions' = MapSet(trainingSessions, id, session)
       /\ Creates("TrainingSession", id)
       /\ UNCHANGED <<users, athletes, exercises, events,
                      galleryItems, bestOfWeeks, liveStreams>>

updateTrainingSession(id, updates) ==
    LET session == MapGet(trainingSessions, id)
        updatedSession == Spread(session, updates)
    IN /\ IF session = Undefined
          THEN /\ trainingSessions' = trainingSessions
               /\ Called("TrainingSession", "update", id, updates, Undefined)
          ELSE /\ trainingSessions' = MapSet(trainingSessions, id, updatedSession)
               /\ Called("TrainingSession", "update", id, updates, updatedSession)
       /\ Updates
       /\ UNCHANGED <<users, athletes, exercises, events,
                      galleryItems, bestOfWeeks, liveStreams>>

(***************************************************************************)
(* Events.                                                                 *)
(***************************************************************************)
getEvent(id) == MapGet(events, id)
getAllEvents == MapValues(events)
\* getUpcomingEvents with >= in place of >
getUpcomingEvents_Inclusive ==
    SelectSeq(MapValues(events), LAMBDA event : event.startDate.n >= D(now).n)

\* getUpcomingEvents returning the events that have started
getUpcomingEvents_Started ==
    SelectSeq(MapValues(events), LAMBDA event : event.startDate.n <= D(now).n)

\* Date > Date compares the time values
getUpcomingEvents ==
    SelectSeq(MapValues(events), LAMBDA event : event.startDate.n > D(now).n)

newEvent(insertEvent, id) ==
    Spread(insertEvent,
           [id |-> id,
            description |-> Or(Prop(insertEvent, "description"), Null),
            endDate |-> Or(Prop(insertEvent, "endDate"), Null),
            mandatory |-> Or(Prop(insertEvent, "mandatory"), Null)])

createEvent(insertEvent) ==
    LET id == randomUUID
        event == newEvent(insertEvent, id)
    IN /\ Called("Event", "create", id, insertEvent, event)
       /\ events' = MapSet(events, id, event)
       /\ Creates("Event", id)
       /\ UNCHANGED <<users, athletes, exercises, trainingSessions,
                      galleryItems, bestOfWeeks, liveStreams>>

updateEvent(id, updates) ==
    LET event == MapGet(events, id)
        updatedEvent == Spread(event, updates)
    IN /\ IF event = Undefined
          THEN /\ events' = events
               /\ Called("Event", "update", id, updates, Undefined)
          ELSE /\ events' = MapSet(events, id, updatedEvent)
               /\ Called("Event", "update", id, updates, updatedEvent)
       /\ Updates
       /\ UNCHANGED <<users, athletes, exercises, trainingSessions,
                      galleryItems, bestOfWeeks, liveStreams>>

deleteEvent(id) ==
    /\ Called("Event", "delete", id, EmptyObj, B(MapHas(events, id)))
    /\ events' = MapDelete(events, id)
    /\ Deletes("Event", id)
    /\ UNCHANGED <<users, athletes, exercises, trainingSessions,
                   galleryItems, bestOfWeeks, liveStreams>>

(***************************************************************************)
(* Gallery.                                                                *)
(***************************************************************************)
getGalleryItem(id) == MapGet(galleryItems, id)
getGalleryItemsByAlbum(album) ==
    SelectSeq(MapValues(galleryItems), LAMBDA item : item.album = album)

newGalleryItem(insertItem, id) ==
    Spread(insertItem,
           [id |-> id,
            description |-> Or(Prop(insertItem, "description"), Null),
            album |-> Or(Prop(insertItem, "album"), Null),
            uploadedAt |-> D(now)])

createGalleryItem(insertItem) ==
    LET id == randomUUID
        item == newGalleryItem(insertItem, id)
    IN /\ Called("GalleryItem", "create", id, insertItem, item)
       /\ galleryItems' = MapSet(galleryItems, id, item)
       /\ Creates("GalleryItem", id)
       /\ UNCHANGED <<users, athletes, exercises, trainingSessions, events,
                      bestOfWeeks, liveStreams>>

deleteGalleryItem(id) ==
    /\ Called("GalleryItem", "delete", id, EmptyObj, B(MapHas(galleryItems, id)))
    /\ galleryItems' = MapDelete(galleryItems, id)
    /\ Deletes("GalleryItem", id)
    /\ UNCHANGED <<users, athletes, exercises, trainingSessions, events,
                   bestOfWeeks, liveStreams>>

(***************************************************************************)
(* Best of the week.                                                       *)
(***************************************************************************)
\* Date.prototype.getDay() returns 0 (Sunday) .. 6 (Saturday)
DaysPerWeek == 7
\* the local calendar: the store is constructed, at time 0, in the last
\* instant of a Saturday; SinceSunday(t) is the time from the start (Sunday
\* 00:00) of the week of the construction to t
SinceSunday(t) == t + DaysPerWeek * TicksPerDay - 1
getDay(t) == (SinceSunday(t) \div TicksPerDay) % DaysPerWeek
TimeOfDay(t) == SinceSunday(t) % TicksPerDay

\* getStartOfWeek without start.setHours(0, 0, 0, 0)
getStartOfWeek_NoSetHours(date) ==
    LET start == date.n
        day == getDay(start)
        onSunday == start - day * TicksPerDay
    IN D(onSunday)

getStartOfWeek(date) ==
    LET start == date.n
        day == getDay(start)
        \* start.setDate(start.getDate() - day)
        onSunday == start - day * TicksPerDay
        \* start.setHours(0, 0, 0, 0)
        atMidnight == onSunday - TimeOfDay(onSunday)
    IN D(atMidnight)

\* getCurrentBestOfWeek accepting any weekStart inside the current week
getCurrentBestOfWeek_SameWeek ==
    LET currentWeekStart == getStartOfWeek(D(now))
    IN First(SelectSeq(MapValues(bestOfWeeks),
                       LAMBDA best :
                           getStartOfWeek(best.weekStart).n = currentWeekStart.n))

getCurrentBestOfWeek ==
    LET currentWeekStart == getStartOfWeek(D(now))
    IN First(SelectSeq(MapValues(bestOfWeeks),
                       LAMBDA best : best.weekStart.n = currentWeekStart.n))

newBestOfWeek(insertBestOfWeek, id) ==
    Spread(insertBestOfWeek,
           [id |-> id,
            achievements |-> Or(Prop(insertBestOfWeek, "achievements"), Null)])

setBestOfWeek(insertBestOfWeek) ==
    LET id == randomUUID
        bestOfWeek == newBestOfWeek(insertBestOfWeek, id)
    IN /\ Called("BestOfWeek", "create", id, insertBestOfWeek, bestOfWeek)
       /\ bestOfWeeks' = MapSet(bestOfWeeks, id, bestOfWeek)
       /\ Creates("BestOfWeek", id)
       /\ UNCHANGED <<users, athletes, exercises, trainingSessions, events,
                      galleryItems, liveStreams>>

(***************************************************************************)
(* Live streams.                                                           *)
(***************************************************************************)
getLiveStream(id) == MapGet(liveStreams, id)
\* getActiveLiveStreams keeping every stream whose flag is not false
getActiveLiveStreams_NotFalse ==
    SelectSeq(MapValues(liveStreams), LAMBDA stream : stream.isActive # B(FALSE))

getActiveLiveStreams ==
    SelectSeq(MapValues(liveStreams), LAMBDA stream : Truthy(stream.isActive))

newLiveStream(insertStream, id) ==
    Spread(insertStream,
           [id |-> id,
            description |-> Or(Prop(insertStream, "description"), Null),
            category |-> Or(Prop(insertStream, "category"), Null),
            isActive |-> Or(Prop(insertStream, "isActive"), Null),
            scheduledFor |-> Or(Prop(insertStream, "scheduledFor"), Null)])

createLiveStream(insertStream) ==
    LET id == randomUUID
        stream == newLiveStream(insertStream, id)
    IN /\ Called("LiveStream", "create", id, insertStream, stream)
       /\ liveStreams' = MapSet(liveStreams, id, stream)
       /\ Creates("LiveStream", id)
       /\ UNCHANGED <<users, athletes, exercises, trainingSessions, events,
                      galleryItems, bestOfWeeks>>

\* updateLiveStream without the not-found return: an absent id is inserted
updateLiveStream_Upsert(id, updates) ==
    LET stream == MapGet(liveStreams, id)
        updatedStream == IF stream = Undefined THEN updates
                         ELSE Spread(stream, updates)
    IN /\ Called("LiveStream", "update", id, updates, updatedStream)
       /\ liveStreams' = MapSet(liveStreams, id, updatedStream)
       /\ Updates
       /\ UNCHANGED <<users, athletes, exercises, trainingSessions, events,
                      galleryItems, bestOfWeeks>>

updateLiveStream(id, updates) ==
    LET stream == MapGet(liveStreams, id)
        updatedStream == Spread(stream, updates)
    IN /\ IF stream = Undefined
          THEN /\ liveStreams' = liveStreams
               /\ Called("LiveStream", "update", id, updates, Undefined)
          ELSE /\ liveStreams' = MapSet(liveStreams, id, updatedStream)
               /\ Called("LiveStream", "update", id, updates, updatedStream)
       /\ Updates
       /\ UNCHANGED <<users, athletes, exercises, trainingSessions, events,
                      galleryItems, bestOfWeeks>>

deleteLiveStream(id) ==
    /\ Called("LiveStream", "delete", id, EmptyObj, B(MapHas(liveStreams, id)))
    /\ liveStreams' = MapDelete(liveStreams, id)
    /\ Deletes("LiveStream", id)
    /\ UNCHANGED <<users, athletes, exercises, trainingSessions, events,
                   galleryItems, bestOfWeeks>>

(***************************************************************************)
(* The inputs of the calls.  A create input is the required fields alone,  *)
(* or the first choice of the required fields with the optional ones all   *)
(* supplied, all supplied with a falsy value, or all null.                 *)
(***************************************************************************)
UserOf(u) ==
    [username |-> S(u), email |-> S(u \o "@lions.com"), password |-> S("secret"),
     fullName |-> S("Ana Lima")]
UserRequired == {UserOf(u) : u \in {"ana", "admin"}}
UserOptional ==
    {EmptyObj,
     [role |-> S("admin"), profilePicture |-> S("ana.png"), position |-> S("Pivo")],
     [role |-> S(""), profilePicture |-> S(""), position |-> S("")],
     [role |-> Null, profilePicture |-> Null, position |-> Null]}
UserInputs == UserRequired \cup {Spread(UserOf("ana"), o) : o \in UserOptional}
UserUpdates ==
    {EmptyObj, [password |-> S("changed")], [position |-> Null],
     [id |-> Uuid(1)]}

AthleteRequired == {[userId |-> Uuid(2)], [userId |-> unknownId]}
AthleteOptional ==
    {EmptyObj,
     [height |-> S("1.90m"), weight |-> S("80kg"), sleepHours |-> S("8"),
      overallPerformance |-> S("0"), lastTraining |-> D(0)],
     [height |-> S(""), weight |-> S(""), sleepHours |-> S(""),
      overallPerformance |-> S(""), lastTraining |-> Null],
     [height |-> Null, weight |-> Null, sleepHours |-> Null,
      overallPerformance |-> Null, lastTraining |-> Null]}
AthleteInputs ==
    AthleteRequired \cup {Spread([userId |-> Uuid(2)], o) : o \in AthleteOptional}
AthleteUpdates ==
    {EmptyObj, [overallPerformance |-> S("85.5")], [height |-> Null],
     [id |-> Uuid(1)]}

ExerciseOf(c) ==
    [name |-> S("Arremesso"), category |-> S(c), createdBy |-> Uuid(1)]
ExerciseRequired == {ExerciseOf(c) : c \in {"basketball", "aerobic"}}
ExerciseOptional ==
    {EmptyObj,
     [description |-> S("Lance livre"), videoUrl |-> S("v.mp4"), metrics |-> O(1)],
     [description |-> S(""), videoUrl |-> S(""), metrics |-> Null],
     [description |-> Null, videoUrl |-> Null, metrics |-> Null]}
ExerciseInputs ==
    ExerciseRequired \cup {Spread(ExerciseOf("basketball"), o) : o \in ExerciseOptional}
ExerciseUpdates ==
    {EmptyObj, [category |-> S("aerobic")], [description |-> Null],
     [id |-> Uuid(1)]}

SessionRequired == {[athleteId |-> Uuid(3), exerciseId |-> Uuid(4)]}
SessionOptional == {EmptyObj, [results |-> O(1)], [results |-> Null]}
SessionInputs == {Spread(r, o) : r \in SessionRequired, o \in SessionOptional}
SessionUpdates ==
    {EmptyObj, [results |-> O(2)], [results |-> Null], [id |-> Uuid(1)]}

EventOf(t) ==
    [title |-> S("Treino"), eventType |-> S("training"), startDate |-> D(t),
     createdBy |-> Uuid(1)]
EventRequired == {EventOf(t) : t \in 1..(MaxTime + 1)}
EventOptional ==
    {EmptyObj,
     [description |-> S("Quadra 1"), endDate |-> D(MaxTime), mandatory |-> B(TRUE)],
     [description |-> S(""), endDate |-> Null, mandatory |-> B(FALSE)],
     [description |-> Null, endDate |-> Null, mandatory |-> Null]}
EventInputs == EventRequired \cup {Spread(EventOf(1), o) : o \in EventOptional}
EventUpdates ==
    {EmptyObj, [startDate |-> D(0)], [mandatory |-> Null],
     [id |-> Uuid(1)]}

GalleryRequired ==
    {[title |-> S("Final"), mediaType |-> S("image"), url |-> S("f.png"),
      uploadedBy |-> Uuid(1)]}
GalleryOptional ==
    {EmptyObj,
     [album |-> S("general")],
     [description |-> S("Campeonato"), album |-> S("jogos")],
     [description |-> S(""), album |-> S("")],
     [description |-> Null, album |-> Null]}
GalleryInputs == {Spread(r, o) : r \in GalleryRequired, o \in GalleryOptional}

BestOfWeekOf(t) == [athleteId |-> Uuid(3), weekStart |-> D(t), setBy |-> Uuid(1)]
BestOfWeekRequired == {BestOfWeekOf(t) : t \in 0..MaxTime}
BestOfWeekOptional == {EmptyObj, [achievements |-> O(1)], [achievements |-> Null]}
BestOfWeekInputs ==
    BestOfWeekRequired \cup {Spread(BestOfWeekOf(1), o) : o \in BestOfWeekOptional}

LiveStreamRequired ==
    {[title |-> S("NBB ao vivo"), youtubeUrl |-> S("yt/1"), createdBy |-> Uuid(1)]}
LiveStreamOptional ==
    {EmptyObj,
     [description |-> S("Final"), isActive |-> B(TRUE), scheduledFor |-> D(MaxTime),
      category |-> S("nba")],
     [description |-> S(""), isActive |-> B(FALSE), scheduledFor |-> Null,
      category |-> S("")],
     [description |-> Null, isActive |-> Null, scheduledFor |-> Null,
      category |-> Null]}
LiveStreamInputs ==
    {Spread(r, o) : r \in LiveStreamRequired, o \in LiveStreamOptional}
LiveStreamUpdates ==
    {EmptyObj, [isActive |-> B(TRUE)], [isActive |-> B(FALSE)],
     [description |-> Null], [id |-> Uuid(1)]}

(***************************************************************************)
(* The clock.                                                              *)
(***************************************************************************)
Tick ==
    /\ now < MaxTime
    /\ now' = now + 1
    /\ UNCHANGED <<containers, uuidCount, lastCall, created, deleted, calls,
                   touched>>

Next ==
    \/ \E insertUser \in UserInputs : createUser(insertUser)
    \/ \E id \in Ids("User", users), updates \in UserUpdates :
           updateUser(id, updates)
    \/ \E insertAthlete \in AthleteInputs : createAthlete(insertAthlete)
    \/ \E id \in Ids("Athlete", athletes), updates \in AthleteUpdates :
           updateAthlete(id, updates)
    \/ \E id \in Ids("Athlete", athletes) : deleteAthlete(id)
    \/ \E insertExercise \in ExerciseInputs : createExercise(insertExercise)
    \/ \E id \in Ids("Exercise", exercises), updates \in ExerciseUpdates :
           updateExercise(id, updates)
    \/ \E id \in Ids("Exercise", exercises) : deleteExercise(id)
    \/ \E insertSession \in SessionInputs : createTrainingSession(insertSession)
    \/ \E id \in Ids("TrainingSession", trainingSessions),
          updates \in SessionUpdates : updateTrainingSession(id, updates)
    \/ \E insertEvent \in EventInputs : createEvent(insertEvent)
    \/ \E id \in Ids("Event", events), updates \in EventUpdates :
           updateEvent(id, updates)
    \/ \E id \in Ids("Event", events) : deleteEvent(id)
    \/ \E insertItem \in GalleryInputs : createGalleryItem(insertItem)
    \/ \E id \in Ids("GalleryItem", galleryItems) : deleteGalleryItem(id)
    \/ \E insertBestOfWeek \in BestOfWeekInputs : setBestOfWeek(insertBestOfWeek)
    \/ \E insertStream \in LiveStreamInputs : createLiveStream(insertStream)
    \/ \E id \in Ids("LiveStream", liveStreams), updates \in LiveStreamUpdates :
           updateLiveStream(id, updates)
    \/ \E id \in Ids("LiveStream", liveStreams) : deleteLiveStream(id)
    \/ Tick

Spec == Init /\ [][Next]_vars

(***************************************************************************)
(* One creation on the freshly constructed store, over every shape of the  *)
(* insert types: each optional field is absent or carries one of the       *)
(* values its type admits.                                                 *)
(***************************************************************************)
Texts == {S("texto"), S(""), Null, Undefined}
Dates == {D(0), Null, Undefined}
Flags == {B(TRUE), B(FALSE), Null, Undefined}
Objects == {O(1), Null, Undefined}

\* every partial record over the fields of values: a field is either absent
\* or present with one of its values
Shapes(values) ==
    UNION {{p \in [present -> UNION {values[f] : f \in DOMAIN values}] :
                \A f \in present : p[f] \in values[f]} :
           present \in SUBSET DOMAIN values}

UserShapes ==
    {Spread(UserOf("ana"), o) :
        o \in Shapes([role |-> {S("admin"), S(""), Undefined},
                      profilePicture |-> Texts, position |-> Texts])}
AthleteShapes ==
    {Spread([userId |-> Uuid(2)], o) :
        o \in Shapes([height |-> Texts, weight |-> Texts, sleepHours |-> Texts,
                      overallPerformance |-> Texts, lastTraining |-> Dates])}
ExerciseShapes ==
    {Spread(ExerciseOf("basketball"), o) :
        o \in Shapes([description |-> Texts, videoUrl |-> Texts,
                      metrics |-> Objects])}
SessionShapes ==
    {Spread(r, o) : r \in SessionRequired, o \in Shapes([results |-> Objects])}
EventShapes ==
    {Spread(EventOf(1), o) :
        o \in Shapes([description |-> Texts, endDate |-> Dates,
                      mandatory |-> Flags])}
GalleryShapes ==
    {Spread(r, o) : r \in GalleryRequired,
                    o \in Shapes([description |-> Texts, album |-> Texts])}
BestOfWeekShapes ==
    {Spread(BestOfWeekOf(1), o) : o \in Shapes([achievements |-> Objects])}
LiveStreamShapes ==
    {Spread(r, o) : r \in LiveStreamRequired,
                    o \in Shapes([description |-> Texts, isActive |-> Flags,
                                  scheduledFor |-> Dates, category |-> Texts])}

\* the store has not been called yet
FirstCall == calls = 0

CreateNext ==
    \/ \E insertUser \in UserShapes :
           FirstCall /\ createUser(insertUser)
    \/ \E insertAthlete \in AthleteShapes :
           FirstCall /\ createAthlete(insertAthlete)
    \/ \E insertExercise \in ExerciseShapes :
           FirstCall /\ createExercise(insertExercise)
    \/ \E insertSession \in SessionShapes :
           FirstCall /\ createTrainingSession(insertSession)
    \/ \E insertEvent \in EventShapes :
           FirstCall /\ createEvent(insertEvent)
    \/ \E insertItem \in GalleryShapes :
           FirstCall /\ createGalleryItem(insertItem)
    \/ \E insertBestOfWeek \in BestOfWeekShapes :
           FirstCall /\ setBestOfWeek(insertBestOfWeek)
    \/ \E insertStream \in LiveStreamShapes :
           FirstCall /\ createLiveStream(insertStream)

CreateSpec == Init /\ [][CreateNext]_vars

(***************************************************************************)
(* The store with dependents of the seeded athlete: the state reached from *)
(* the constructed store by createExercise, createTrainingSession and      *)
(* setBestOfWeek, the last two naming the seeded athlete.                  *)
(***************************************************************************)
PopulatedInit ==
    /\ now = 0
    /\ users = MapSet(MapSet(<<>>, Uuid(1), adminUser), Uuid(2), athleteUser)
    /\ athletes = MapSet(<<>>, Uuid(3), seedAthlete)
    /\ exercises =
           MapSet(<<>>, Uuid(4), newExercise(ExerciseOf("basketball"), Uuid(4)))
    /\ trainingSessions =
           MapSet(<<>>, Uuid(5),
                  newTrainingSession([athleteId |-> Uuid(3),
                                      exerciseId |-> Uuid(4)], Uuid(5)))
    /\ events = <<>>
    /\ galleryItems = <<>>
    /\ bestOfWeeks = MapSet(<<>>, Uuid(6), newBestOfWeek(BestOfWeekOf(1), Uuid(6)))
    /\ liveStreams = <<>>
    /\ uuidCount = 6
    /\ lastCall = [kind |-> "BestOfWeek", op |-> "create", id |-> Uuid(6),
                   arg |-> BestOfWeekOf(1),
                   ret |-> newBestOfWeek(BestOfWeekOf(1), Uuid(6))]
    /\ created = {<<"Exercise", Uuid(4)>>, <<"TrainingSession", Uuid(5)>>,
                  <<"BestOfWeek", Uuid(6)>>}
    /\ deleted = {}
    /\ calls = 0
    /\ touched = {}

PopulatedSpec == PopulatedInit /\ [][Next]_vars

(***************************************************************************)
(* The route layer.  A handler awaits only promises of MemStorage that are *)
(* already resolved, so it runs to its response before another request is  *)
(* served: one action per request that writes.  A request that only reads  *)
(* leaves the store as it is: its response is an operator on the state.    *)
(***************************************************************************)
\* res.status(status).json(body)
Response(status, body) == [status |-> status, body |-> body]
Message(text) == [message |-> S(text)]

\* the insert schemas made by createInsertSchema: the type of the values of
\* each column, of the columns a body must have and of those it may have
insertUserSchema ==
    [required |-> [username |-> {"string"}, email |-> {"string"},
                   password |-> {"string"}, fullName |-> {"string"}],
     optional |-> [role |-> {"string"}, profilePicture |-> {"string", "null"},
                   position |-> {"string", "null"}]]
insertAthleteSchema ==
    [required |-> [userId |-> {"string"}],
     optional |-> [height |-> {"string", "null"}, weight |-> {"string", "null"},
                   sleepHours |-> {"string", "null"},
                   overallPerformance |-> {"string", "null"},
                   lastTraining |-> {"date", "null"}]]
insertExerciseSchema ==
    [required |-> [name |-> {"string"}, category |-> {"string"},
                   createdBy |-> {"string"}],
     optional |-> [description |-> {"string", "null"},
                   videoUrl |-> {"string", "null"},
                   metrics |-> {"object", "string", "boolean", "null"}]]
insertTrainingSessionSchema ==
    [required |-> [athleteId |-> {"string"}, exerciseId |-> {"string"}],
     optional |-> [results |-> {"object", "string", "boolean", "null"}]]
insertEventSchema ==
    [required |-> [title |-> {"string"}, eventType |-> {"string"},
                   startDate |-> {"date"}, createdBy |-> {"string"}],
     optional |-> [description |-> {"string", "null"},
                   endDate |-> {"date", "null"},
                   mandatory |-> {"boolean", "null"}]]
insertGallerySchema ==
    [required |-> [title |-> {"string"}, mediaType |-> {"string"},
                   url |-> {"string"}, uploadedBy |-> {"string"}],
     optional |-> [description |-> {"string", "null"},
                   album |-> {"string", "null"}]]
insertBestOfWeekSchema ==
    [required |-> [athleteId |-> {"string"}, weekStart |-> {"date"},
                   setBy |-> {"string"}],
     optional |-> [achievements |-> {"object", "string", "boolean", "null"}]]
insertLiveStreamSchema ==
    [required |-> [title |-> {"string"}, youtubeUrl |-> {"string"},
                   createdBy |-> {"string"}],
     optional |-> [description |-> {"string", "null"},
                   isActive |-> {"boolean", "null"},
                   scheduledFor |-> {"date", "null"},
                   category |-> {"string", "null"}]]

\* the insert schema of each kind
SchemaOf(kind) ==
    CASE kind = "User" -> insertUserSchema
      [] kind = "Athlete" -> insertAthleteSchema
      [] kind = "Exercise" -> insertExerciseSchema
      [] kind = "TrainingSession" -> insertTrainingSessionSchema
      [] kind = "Event" -> insertEventSchema
      [] kind = "GalleryItem" -> insertGallerySchema
      [] kind = "BestOfWeek" -> insertBestOfWeekSchema
      [] kind = "LiveStream" -> insertLiveStreamSchema

\* schema.parse(body): throws unless every required column is present with
\* its type and every optional one is absent or has its type; returns the
\* body without the keys that are not columns of the schema
Conforms(body, schema) ==
    /\ \A f \in DOMAIN schema.required :
           f \in DOMAIN body /\ body[f].t \in schema.required[f]
    /\ \A f \in DOMAIN schema.optional :
           Prop(body, f) = Undefined \/ body[f].t \in schema.optional[f]
Strip(body, schema) ==
    [f \in DOMAIN body \cap (DOMAIN schema.required \cup DOMAIN schema.optional)
        |-> body[f]]

\* the user object of the responses of login and register
PublicUser(user) ==
    [f \in {"id", "username", "email", "role", "fullName", "profilePicture",
            "position"} |-> user[f]]

Unchanged6 ==
    UNCHANGED <<exercises, trainingSessions, events, galleryItems, bestOfWeeks,
                liveStreams>>

\* POST /api/auth/register without the lookup of the email
postAuthRegister_NoEmailCheck(body) ==
    LET userData == Strip(body, insertUserSchema)
        id == randomUUID
        user == newUser(userData, id)
        athleteId == Uuid(uuidCount + 2)
        op == "POST /api/auth/register"
    IN IF ~Conforms(body, insertUserSchema)
       THEN /\ Called("User", op, Undefined, body,
                      Response(400, Message("Invalid user data")))
            /\ UNCHANGED <<users, athletes, uuidCount, created, deleted>>
            /\ Unchanged6
       ELSE IF getUserByUsername(userData.username) # Undefined
       THEN /\ Called("User", op, Undefined, body,
                      Response(400, Message("Username already exists")))
            /\ UNCHANGED <<users, athletes, uuidCount, created, deleted>>
            /\ Unchanged6
       ELSE /\ Called("User", op, id, body, Response(201, [user |-> PublicUser(user)]))
            /\ users' = MapSet(users, id, user)
            /\ IF Prop(userData, "role") = S("athlete")
               THEN /\ athletes' =
                          MapSet(athletes, athleteId,
                                 newAthlete([userId |-> user.id, height |-> Null,
                                             weight |-> Null,
                                             sleepHours |-> Null,
                                             overallPerformance |-> S("0"),
                                             lastTraining |-> Null],
                                            athleteId))
                    /\ uuidCount' = uuidCount + 2
                    /\ created' = created \cup {<<"User", id>>,
                                                <<"Athlete", athleteId>>}
               ELSE /\ athletes' = athletes
                    /\ uuidCount' = uuidCount + 1
                    /\ created' = created \cup {<<"User", id>>}
            /\ deleted' = deleted
            /\ Unchanged6

\* POST /api/auth/register
postAuthRegister(body) ==
    LET userData == Strip(body, insertUserSchema)
        id == randomUUID
        user == newUser(userData, id)
        athleteId == Uuid(uuidCount + 2)
        op == "POST /api/auth/register"
    IN IF ~Conforms(body, insertUserSchema)
       THEN /\ Called("User", op, Undefined, body,
                      Response(400, Message("Invalid user data")))
            /\ UNCHANGED <<users, athletes, uuidCount, created, deleted>>
            /\ Unchanged6
       ELSE IF getUserByUsername(userData.username) # Undefined
       THEN /\ Called("User", op, Undefined, body,
                      Response(400, Message("Username already exists")))
            /\ UNCHANGED <<users, athletes, uuidCount, created, deleted>>
            /\ Unchanged6
       ELSE IF getUserByEmail(userData.email) # Undefined
       THEN /\ Called("User", op, Undefined, body,
                      Response(400, Message("Email already exists")))
            /\ UNCHANGED <<users, athletes, uuidCount, created, deleted>>
            /\ Unchanged6
       ELSE /\ Called("User", op, id, body, Response(201, [user |-> PublicUser(user)]))
            /\ users' = MapSet(users, id, user)
            /\ IF Prop(userData, "role") = S("athlete")
               THEN /\ athletes' =
                          MapSet(athletes, athleteId,
                                 newAthlete([userId |-> user.id, height |-> Null,
                                             weight |-> Null,
                                             sleepHours |-> Null,
                                             overallPerformance |-> S("0"),
                                             lastTraining |-> Null],
                                            athleteId))
                    /\ uuidCount' = uuidCount + 2
                    /\ created' = created \cup {<<"User", id>>,
                                                <<"Athlete", athleteId>>}
               ELSE /\ athletes' = athletes
                    /\ uuidCount' = uuidCount + 1
                    /\ created' = created \cup {<<"User", id>>}
            /\ deleted' = deleted
            /\ Unchanged6

\* POST /api/athletes
postAthletes(body) ==
    LET athleteData == Strip(body, insertAthleteSchema)
        id == randomUUID
        athlete == newAthlete(athleteData, id)
        op == "POST /api/athletes"
    IN IF ~Conforms(body, insertAthleteSchema)
       THEN /\ Called("Athlete", op, Undefined, body,
                      Response(400, Message("Invalid athlete data")))
            /\ UNCHANGED <<users, athletes, uuidCount, created, deleted>>
            /\ Unchanged6
       ELSE /\ Called("Athlete", op, id, body, Response(201, athlete))
            /\ athletes' = MapSet(athletes, id, athlete)
            /\ Creates("Athlete", id)
            /\ UNCHANGED users
            /\ Unchanged6

\* PUT /api/athletes/:id
putAthletes(id, body) ==
    LET athlete == MapGet(athletes, id)
        updatedAthlete == Spread(athlete, body)
        op == "PUT /api/athletes/:id"
    IN /\ IF athlete = Undefined
          THEN /\ Called("Athlete", op, id, body,
                         Response(404, Message("Athlete not found")))
               /\ athletes' = athletes
          ELSE /\ Called("Athlete", op, id, body, Response(200, updatedAthlete))
               /\ athletes' = MapSet(athletes, id, updatedAthlete)
       /\ Updates
       /\ UNCHANGED users
       /\ Unchanged6

\* DELETE /api/athletes/:id answering 204 whatever deleteAthlete returns
deleteAthletes_Always204(id) ==
    LET op == "DELETE /api/athletes/:id"
    IN /\ Called("Athlete", op, id, EmptyObj, Response(204, EmptyObj))
       /\ athletes' = MapDelete(athletes, id)
       /\ Deletes("Athlete", id)
       /\ UNCHANGED users
       /\ Unchanged6

\* DELETE /api/athletes/:id
deleteAthletes(id) ==
    LET success == MapHas(athletes, id)
        op == "DELETE /api/athletes/:id"
    IN /\ Called("Athlete", op, id, EmptyObj,
                 IF success THEN Response(204, EmptyObj)
                 ELSE Response(404, Message("Athlete not found")))
       /\ athletes' = MapDelete(athletes, id)
       /\ Deletes("Athlete", id)
       /\ UNCHANGED users
       /\ Unchanged6

\* POST /api/exercises
postExercises(body) ==
    LET exerciseData == Strip(body, insertExerciseSchema)
        id == randomUUID
        exercise == newExercise(exerciseData, id)
        op == "POST /api/exercises"
    IN IF ~Conforms(body, insertExerciseSchema)
       THEN /\ Called("Exercise", op, Undefined, body,
                      Response(400, Message("Invalid exercise data")))
            /\ UNCHANGED <<containers, uuidCount, created, deleted>>
       ELSE /\ Called("Exercise", op, id, body, Response(201, exercise))
            /\ exercises' = MapSet(exercises, id, exercise)
            /\ Creates("Exercise", id)
            /\ UNCHANGED <<users, athletes, trainingSessions, events,
                        galleryItems, bestOfWeeks, liveStreams>>

\* PUT /api/exercises/:id
putExercises(id, body) ==
    LET exercise == MapGet(exercises, id)
        updatedExercise == Spread(exercise, body)
        op == "PUT /api/exercises/:id"
    IN /\ IF exercise = Undefined
          THEN /\ Called("Exercise", op, id, body,
                         Response(404, Message("Exercise not found")))
               /\ exercises' = exercises
          ELSE /\ Called("Exercise", op, id, body, Response(200, updatedExercise))
               /\ exercises' = MapSet(exercises, id, updatedExercise)
       /\ Updates
       /\ UNCHANGED <<users, athletes, trainingSessions, events,
                   galleryItems, bestOfWeeks, liveStreams>>

\* DELETE /api/exercises/:id
deleteExercises(id) ==
    LET success == MapHas(exercises, id)
        op == "DELETE /api/exercises/:id"
    IN /\ Called("Exercise", op, id, EmptyObj,
                 IF success THEN Response(204, EmptyObj)
                 ELSE Response(404, Message("Exercise not found")))
       /\ exercises' = MapDelete(exercises, id)
       /\ Deletes("Exercise", id)
       /\ UNCHANGED <<users, athletes, trainingSessions, events,
                   galleryItems, bestOfWeeks, liveStreams>>

\* POST /api/training-sessions
postTrainingSessions(body) ==
    LET sessionData == Strip(body, insertTrainingSessionSchema)
        id == randomUUID
        session == newTrainingSession(sessionData, id)
        op == "POST /api/training-sessions"
    IN IF ~Conforms(body, insertTrainingSessionSchema)
       THEN /\ Called("TrainingSession", op, Undefined, body,
                      Response(400, Message("Invalid training session data")))
            /\ UNCHANGED <<containers, uuidCount, created, deleted>>
       ELSE /\ Called("TrainingSession", op, id, body, Response(201, session))
            /\ trainingSessions' = MapSet(trainingSessions, id, session)
            /\ Creates("TrainingSession", id)
            /\ UNCHANGED <<users, athletes, exercises, events,
                        galleryItems, bestOfWeeks, liveStreams>>

\* POST /api/events
postEvents(body) ==
    LET eventData == Strip(body, insertEventSchema)
        id == randomUUID
        event == newEvent(eventData, id)
        op == "POST /api/events"
    IN IF ~Conforms(body, insertEventSchema)
       THEN /\ Called("Event", op, Undefined, body,
                      Response(400, Message("Invalid event data")))
            /\ UNCHANGED <<containers, uuidCount, created, deleted>>
       ELSE /\ Called("Event", op, id, body, Response(201, event))
            /\ events' = MapSet(events, id, event)
            /\ Creates("Event", id)
            /\ UNCHANGED <<users, athletes, exercises, trainingSessions,
                        galleryItems, bestOfWeeks, liveStreams>>

\* PUT /api/events/:id
putEvents(id, body) ==
    LET event == MapGet(events, id)
        updatedEvent == Spread(event, body)
        op == "PUT /api/events/:id"
    IN /\ IF event = Undefined
          THEN /\ Called("Event", op, id, body,
                         Response(404, Message("Event not found")))
               /\ events' = events
          ELSE /\ Called("Event", op, id, body, Response(200, updatedEvent))
               /\ events' = MapSet(events, id, updatedEvent)
       /\ Updates
       /\ UNCHANGED <<users, athletes, exercises, trainingSessions,
                   galleryItems, bestOfWeeks, liveStreams>>

\* DELETE /api/events/:id
deleteEvents(id) ==
    LET success == MapHas(events, id)
        op == "DELETE /api/events/:id"
    IN /\ Called("Event", op, id, EmptyObj,
                 IF success THEN Response(204, EmptyObj)
                 ELSE Response(404, Message("Event not found")))
       /\ events' = MapDelete(events, id)
       /\ Deletes("Event", id)
       /\ UNCHANGED <<users, athletes, exercises, trainingSessions,
                   galleryItems, bestOfWeeks, liveStreams>>

\* POST /api/gallery
postGallery(body) ==
    LET galleryData == Strip(body, insertGallerySchema)
        id == randomUUID
        item == newGalleryItem(galleryData, id)
        op == "POST /api/gallery"
    IN IF ~Conforms(body, insertGallerySchema)
       THEN /\ Called("GalleryItem", op, Undefined, body,
                      Response(400, Message("Invalid gallery item data")))
            /\ UNCHANGED <<containers, uuidCount, created, deleted>>
       ELSE /\ Called("GalleryItem", op, id, body, Response(201, item))
            /\ galleryItems' = MapSet(galleryItems, id, item)
            /\ Creates("GalleryItem", id)
            /\ UNCHANGED <<users, athletes, exercises, trainingSessions,
                        events, bestOfWeeks, liveStreams>>

\* DELETE /api/gallery/:id
deleteGallery(id) ==
    LET success == MapHas(galleryItems, id)
        op == "DELETE /api/gallery/:id"
    IN /\ Called("GalleryItem", op, id, EmptyObj,
                 IF success THEN Response(204, EmptyObj)
                 ELSE Response(404, Message("Gallery item not found")))
       /\ galleryItems' = MapDelete(galleryItems, id)
       /\ Deletes("GalleryItem", id)
       /\ UNCHANGED <<users, athletes, exercises, trainingSessions,
                   events, bestOfWeeks, liveStreams>>

\* POST /api/best-of-week
postBestOfWeek(body) ==
    LET bestOfWeekData == Strip(body, insertBestOfWeekSchema)
        id == randomUUID
        bestOfWeek == newBestOfWeek(bestOfWeekData, id)
        op == "POST /api/best-of-week"
    IN IF ~Conforms(body, insertBestOfWeekSchema)
       THEN /\ Called("BestOfWeek", op, Undefined, body,
                      Response(400, Message("Invalid best of week data")))
            /\ UNCHANGED <<containers, uuidCount, created, deleted>>
       ELSE /\ Called("BestOfWeek", op, id, body, Response(201, bestOfWeek))
            /\ bestOfWeeks' = MapSet(bestOfWeeks, id, bestOfWeek)
            /\ Creates("BestOfWeek", id)
            /\ UNCHANGED <<users, athletes, exercises, trainingSessions,
                        events, galleryItems, liveStreams>>

\* POST /api/live-streams
postLiveStreams(body) ==
    LET streamData == Strip(body, insertLiveStreamSchema)
        id == randomUUID
        stream == newLiveStream(streamData, id)
        op == "POST /api/live-streams"
    IN IF ~Conforms(body, insertLiveStreamSchema)
       THEN /\ Called("LiveStream", op, Undefined, body,
                      Response(400, Message("Invalid live stream data")))
            /\ UNCHANGED <<containers, uuidCount, created, deleted>>
       ELSE /\ Called("LiveStream", op, id, body, Response(201, stream))
            /\ liveStreams' = MapSet(liveStreams, id, stream)
            /\ Creates("LiveStream", id)
            /\ UNCHANGED <<users, athletes, exercises, trainingSessions,
                        events, galleryItems, bestOfWeeks>>

\* PUT /api/live-streams/:id
putLiveStreams(id, body) ==
    LET stream == MapGet(liveStreams, id)
        updatedStream == Spread(stream, body)
        op == "PUT /api/live-streams/:id"
    IN /\ IF stream = Undefined
          THEN /\ Called("LiveStream", op, id, body,
                         Response(404, Message("Live stream not found")))
               /\ liveStreams' = liveStreams
          ELSE /\ Called("LiveStream", op, id, body, Response(200, updatedStream))
               /\ liveStreams' = MapSet(liveStreams, id, updatedStream)
       /\ Updates
       /\ UNCHANGED <<users, athletes, exercises, trainingSessions,
                   events, galleryItems, bestOfWeeks>>

\* DELETE /api/live-streams/:id
deleteLiveStreams(id) ==
    LET success == MapHas(liveStreams, id)
        op == "DELETE /api/live-streams/:id"
    IN /\ Called("LiveStream", op, id, EmptyObj,
                 IF success THEN Response(204, EmptyObj)
                 ELSE Response(404, Message("Live stream not found")))
       /\ liveStreams' = MapDelete(liveStreams, id)
       /\ Deletes("LiveStream", id)
       /\ UNCHANGED <<users, athletes, exercises, trainingSessions,
                   events, galleryItems, bestOfWeeks>>

\* POST /api/auth/login: the response to a body in the current state
postAuthLogin(body) ==
    LET username == Prop(body, "username")
        password == Prop(body, "password")
        user == getUserByUsername(username)
    IN IF ~Truthy(username) \/ ~Truthy(password)
       THEN Response(400, Message("Username and password are required"))
       ELSE IF user = Undefined
       THEN Response(401, Message("Invalid credentials"))
       ELSE IF user.password # password
       THEN Response(401, Message("Invalid credentials"))
       ELSE Response(200, [user |-> PublicUser(user)])

\* GET /api/users/:id
getUsersId(id) ==
    LET user == getUser(id)
    IN IF user = Undefined
       THEN Response(404, Message("User not found"))
       ELSE Response(200, user)

\* { ...athlete, user } with user = await storage.getUser(athlete.userId)
WithUser(athlete) == Spread(athlete, [user |-> getUser(athlete.userId)])

\* GET /api/athletes
getAthletes ==
    LET athletesWithUsers ==
            [i \in 1..Len(getAllAthletes) |-> WithUser(getAllAthletes[i])]
    IN Response(200, athletesWithUsers)

\* GET /api/athletes/:id
getAthletesId(id) ==
    LET athlete == getAthlete(id)
    IN IF athlete = Undefined
       THEN Response(404, Message("Athlete not found"))
       ELSE Response(200, WithUser(athlete))

\* GET /api/best-of-week
getBestOfWeek ==
    LET bestOfWeek == getCurrentBestOfWeek
        athlete == getAthlete(bestOfWeek.athleteId)
        user == IF athlete # Undefined THEN getUser(athlete.userId) ELSE Null
        \* { ...athlete, user }: spreading undefined adds nothing
        athleteWithUser ==
            Spread(IF athlete # Undefined THEN athlete ELSE EmptyObj,
                   [user |-> user])
    IN IF bestOfWeek = Undefined
       THEN Response(404, Message("No best of week set"))
       ELSE Response(200, Spread(bestOfWeek, [athlete |-> athleteWithUser]))

\* request bodies, as the body parser hands them to the handlers
RegisterOf(username, email) ==
    [username |-> S(username), email |-> S(email), password |-> S("secret"),
     fullName |-> S("Ana Lima")]
Bodies ==
    [postAuthRegister |->
         {RegisterOf("ana", "ana@lions.com"),
         Spread(RegisterOf("ana", "ana@lions.com"), [role |-> S("athlete")]),
         Spread(RegisterOf("bia", "bia@lions.com"),
                [role |-> S("admin"), id |-> Uuid(1)]),
         Spread(RegisterOf("admin", "novo@lions.com"), [role |-> S("athlete")]),
         Spread(RegisterOf("caio", "joao@lions.com"), [role |-> S("athlete")]),
         Spread(RegisterOf("ana", "bia@lions.com"), [role |-> S("athlete")]),
         Spread(RegisterOf("bia", "ana@lions.com"), [position |-> Null]),
         [username |-> S("dani"), email |-> S("dani@lions.com")],
         Spread(RegisterOf("dani", "dani@lions.com"), [password |-> Null]),
         Spread(RegisterOf("eva", "eva@lions.com"), [password |-> S("")])},
     postAthletes |->
         {[userId |-> Uuid(2)],
         [userId |-> unknownId],
         [userId |-> Uuid(1), height |-> S("1.90m"), overallPerformance |-> Null],
         [userId |-> Uuid(2), lastTraining |-> S("2024-01-01")],
         EmptyObj},
     putAthletes |->
         {EmptyObj, [overallPerformance |-> S("85.5")], [userId |-> unknownId],
         [id |-> Uuid(1)], [height |-> B(TRUE)]},
     postExercises |->
         {ExerciseOf("basketball"), EmptyObj},
     putExercises |->
         {[category |-> S("aerobic")], [name |-> B(TRUE)]},
     postTrainingSessions |->
         SessionRequired \cup {[athleteId |-> Uuid(3)]},
     postEvents |->
         {EventOf(1), Spread(EventOf(1), [startDate |-> S("2025-01-05T00:00:00Z")])},
     putEvents |->
         {[mandatory |-> B(TRUE)], [startDate |-> S("amanha")]},
     postGallery |->
         GalleryRequired \cup {EmptyObj},
     postBestOfWeek |->
         BestOfWeekRequired \cup
            {Spread(BestOfWeekOf(0), [weekStart |-> S("2025-01-05T12:00:00Z")])},
     postLiveStreams |->
         LiveStreamRequired \cup
            {Spread(r, [isActive |-> S("yes")]) : r \in LiveStreamRequired},
     putLiveStreams |->
         {[isActive |-> B(TRUE)], [title |-> Null]}]

\* the routes by method
Routes ==
    [post |->
         {"POST /api/auth/register", "POST /api/athletes",
          "POST /api/exercises", "POST /api/training-sessions",
          "POST /api/events", "POST /api/gallery", "POST /api/best-of-week",
          "POST /api/live-streams"},
     put |->
         {"PUT /api/athletes/:id", "PUT /api/exercises/:id",
          "PUT /api/events/:id", "PUT /api/live-streams/:id"},
     delete |->
         {"DELETE /api/athletes/:id", "DELETE /api/exercises/:id",
          "DELETE /api/events/:id", "DELETE /api/gallery/:id",
          "DELETE /api/live-streams/:id"}]

LoginBodies ==
    {[username |-> S(u), password |-> S(p)] :
        u \in {"admin", "joao", "ana", "eva", ""},
        p \in {"admin123", "athlete123", "secret", ""}}
        \cup {EmptyObj, [username |-> S("admin")]}

RouteNext ==
    \/ \E body \in Bodies.postAuthRegister : postAuthRegister(body)
    \/ \E body \in Bodies.postAthletes : postAthletes(body)
    \/ \E id \in Ids("Athlete", athletes), body \in Bodies.putAthletes :
           putAthletes(id, body)
    \/ \E id \in Ids("Athlete", athletes) : deleteAthletes(id)
    \/ \E body \in Bodies.postExercises : postExercises(body)
    \/ \E id \in Ids("Exercise", exercises), body \in Bodies.putExercises :
           putExercises(id, body)
    \/ \E id \in Ids("Exercise", exercises) : deleteExercises(id)
    \/ \E body \in Bodies.postTrainingSessions : postTrainingSessions(body)
    \/ \E body \in Bodies.postEvents : postEvents(body)
    \/ \E id \in Ids("Event", events), body \in Bodies.putEvents :
           putEvents(id, body)
    \/ \E id \in Ids("Event", events) : deleteEvents(id)
    \/ \E body \in Bodies.postGallery : postGallery(body)
    \/ \E id \in Ids("GalleryItem", galleryItems) : deleteGallery(id)
    \/ \E body \in Bodies.postBestOfWeek : postBestOfWeek(body)
    \/ \E body \in Bodies.postLiveStreams : postLiveStreams(body)
    \/ \E id \in Ids("LiveStream", liveStreams),
          body \in Bodies.putLiveStreams : putLiveStreams(id, body)
    \/ \E id \in Ids("LiveStream", liveStreams) : deleteLiveStreams(id)
    \/ Tick

RouteSpec == Init /\ [][RouteNext]_vars

(***************************************************************************)
(* getStartOfWeek on its own, applied to every timestamp of a few weeks.   *)
(* The call records the timestamp passed, the argument object as the call  *)
(* leaves it (start is a copy, new Date(date)) and the Date returned.      *)
(***************************************************************************)
Week == DaysPerWeek * TicksPerDay

callGetStartOfWeek(date) ==
    /\ Called("Date", "getStartOfWeek", date, [date |-> date],
              getStartOfWeek(date))
    /\ Updates
    /\ UNCHANGED containers

WeekNext ==
    \E t \in (0 - Week)..(MaxWeeks * Week) : callGetStartOfWeek(D(t))

WeekSpec == Init /\ [][WeekNext]_vars

\* the columns of each table of the schema
Columns(kind) ==
    CASE kind = "User" ->
             {"id", "username", "email", "password", "role", "fullName",
              "profilePicture", "position", "createdAt"}
      [] kind = "Athlete" ->
             {"id", "userId", "height", "weight", "sleepHours",
              "overallPerformance", "lastTraining"}
      [] kind = "Exercise" ->
             {"id", "name", "description", "category", "videoUrl", "metrics",
              "createdBy"}
      [] kind = "TrainingSession" ->
             {"id", "athleteId", "exerciseId", "results", "completedAt"}
      [] kind = "Event" ->
             {"id", "title", "description", "eventType", "startDate", "endDate",
              "mandatory", "createdBy"}
      [] kind = "GalleryItem" ->
             {"id", "title", "description", "mediaType", "url", "album",
              "uploadedBy", "uploadedAt"}
      [] kind = "BestOfWeek" ->
             {"id", "athleteId", "weekStart", "achievements", "setBy"}
      [] kind = "LiveStream" ->
             {"id", "title", "description", "youtubeUrl", "isActive",
              "scheduledFor", "category", "createdBy"}

(***************************************************************************)
(* Vocabulary of the properties.                                           *)
(***************************************************************************)
PointLookupKinds ==
    {"User", "Athlete", "Exercise", "TrainingSession", "Event", "GalleryItem",
     "LiveStream"}

\* get<Entity>(id)
get(kind, id) ==
    CASE kind = "User" -> getUser(id)
      [] kind = "Athlete" -> getAthlete(id)
      [] kind = "Exercise" -> getExercise(id)
      [] kind = "TrainingSession" -> getTrainingSession(id)
      [] kind = "Event" -> getEvent(id)
      [] kind = "GalleryItem" -> getGalleryItem(id)
      [] kind = "LiveStream" -> getLiveStream(id)

\* the Map of an entity kind in the tuple cs of the store's containers
KindMap(cs, kind) ==
    CASE kind = "User" -> cs[1]
      [] kind = "Athlete" -> cs[2]
      [] kind = "Exercise" -> cs[3]
      [] kind = "TrainingSession" -> cs[4]
      [] kind = "Event" -> cs[5]
      [] kind = "GalleryItem" -> cs[6]
      [] kind = "BestOfWeek" -> cs[7]
      [] kind = "LiveStream" -> cs[8]

\* every identifier generated so far and the one that is never generated
AllIds == {Uuid(k) : k \in 0..uuidCount}

\* the identifiers the constructor gave to the seeded records
SeededIds(kind) ==
    CASE kind = "User" -> {adminUser.id, athleteUser.id}
      [] kind = "Athlete" -> {seedAthlete.id}
      [] OTHER -> {}

\* the step is a call of a store method
IsCall == calls' = calls + 1

NotFound == {Undefined, B(FALSE)}

(***************************************************************************)
(* C1: after create, get with the id of the returned record returns a      *)
(* record equal to the returned one, for every kind with a point lookup.   *)
(***************************************************************************)
C1_GetAfterCreate ==
    (lastCall.op = "create" /\ lastCall.kind \in PointLookupKinds)
        => get(lastCall.kind, Prop(lastCall.ret, "id")) = lastCall.ret

C1_Witness ==
    /\ lastCall.op = "create"
    /\ lastCall.kind = "Athlete"
    /\ "height" \notin DOMAIN lastCall.arg
    /\ getAthlete(lastCall.ret.id) = lastCall.ret
    /\ Len(athletes) = 2

(***************************************************************************)
(* C2: update(id, partial) on an existing id overwrites exactly the fields *)
(* present in partial (null included) and leaves the others unchanged; the *)
(* merged record is stored and returned.                                   *)
(***************************************************************************)
C2_UpdateMerges ==
    [][(/\ IsCall
        /\ lastCall'.op = "update"
        /\ MapHas(KindMap(containers, lastCall'.kind), lastCall'.id))
       => LET old == MapGet(KindMap(containers, lastCall'.kind), lastCall'.id)
              new == MapGet(KindMap(containers', lastCall'.kind), lastCall'.id)
              partial == lastCall'.arg
          IN /\ DOMAIN new = (DOMAIN old) \cup (DOMAIN partial)
             /\ \A f \in DOMAIN new :
                    new[f] = IF f \in DOMAIN partial THEN partial[f] ELSE old[f]
             /\ lastCall'.ret = new]_vars

C2_Witness ==
    /\ lastCall.op = "update"
    /\ lastCall.kind = "Athlete"
    /\ lastCall.arg = [overallPerformance |-> S("85.5")]
    /\ <<"Athlete", lastCall.id>> \in created
    /\ getAthlete(lastCall.id).overallPerformance = S("85.5")
    /\ getAthlete(lastCall.id).height = S("1.90m")

(***************************************************************************)
(* C3: once delete(id) has returned, get(id) is not-found in every later   *)
(* state, and a further delete(id) returns false.                          *)
(***************************************************************************)
C3_DeletedStaysGone ==
    [][/\ (\A d \in deleted : get(d[1], d[2]) = Undefined)'
       /\ (/\ IsCall
           /\ lastCall'.op = "delete"
           /\ <<lastCall'.kind, lastCall'.id>> \in deleted)
          => lastCall'.ret = B(FALSE)]_vars

C3_Witness ==
    /\ lastCall.op = "delete"
    /\ lastCall.kind = "Athlete"
    /\ lastCall.id = seedAthlete.id
    /\ lastCall.ret = B(FALSE)
    /\ <<"Athlete", lastCall.id>> \in deleted
    /\ getAthlete(lastCall.id) = Undefined

(***************************************************************************)
(* C4, as stated: an id that no create call has returned is not-found for  *)
(* get, update and delete.                                                 *)
(***************************************************************************)
C4_NeverCreatedNotFound ==
    \A kind \in PointLookupKinds : \A id \in AllIds :
        <<kind, id>> \notin created
            => /\ get(kind, id) = Undefined
               /\ (/\ lastCall.kind = kind
                   /\ lastCall.id = id
                   /\ lastCall.op \in {"update", "delete"})
                  => lastCall.ret \in NotFound

(***************************************************************************)
(* C4, amended: an id that no create call has returned and that the        *)
(* constructor did not give to a seeded record is not-found for get,       *)
(* update and delete.                                                      *)
(***************************************************************************)
C4_UnknownIdNotFound ==
    \A kind \in PointLookupKinds : \A id \in AllIds :
        (<<kind, id>> \notin created /\ id \notin SeededIds(kind))
            => /\ get(kind, id) = Undefined
               /\ (/\ lastCall.kind = kind
                   /\ lastCall.id = id
                   /\ lastCall.op \in {"update", "delete"})
                  => lastCall.ret \in NotFound

C4_Witness ==
    /\ lastCall.op = "update"
    /\ lastCall.kind = "User"
    /\ <<"User", lastCall.id>> \notin created
    /\ lastCall.id \notin SeededIds("User")
    /\ "password" \in DOMAIN lastCall.arg
    /\ lastCall.ret = Undefined
    /\ getUser(lastCall.id) = Undefined

(***************************************************************************)
(* C5: an update or delete of an id that is absent from the container      *)
(* returns not-found and changes no container.                             *)
(***************************************************************************)
C5_AbsentIdNoEffect ==
    [][(/\ IsCall
        /\ lastCall'.op \in {"update", "delete"}
        /\ ~MapHas(KindMap(containers, lastCall'.kind), lastCall'.id))
       => /\ lastCall'.ret = IF lastCall'.op = "update" THEN Undefined
                             ELSE B(FALSE)
          /\ containers' = containers]_vars

C5_Witness ==
    /\ lastCall.op = "delete"
    /\ lastCall.kind = "LiveStream"
    /\ lastCall.ret = B(FALSE)
    /\ Len(liveStreams) = 1
    /\ lastCall.id \notin MapKeys(liveStreams)
    /\ <<"LiveStream", lastCall.id>> \notin created

(***************************************************************************)
(* C6: getExercisesByCategory(c) holds exactly the stored exercises whose  *)
(* category is c, each once.                                               *)
(***************************************************************************)
Categories == {"basketball", "aerobic", "strength", ""}

C6_ByCategoryExact ==
    \A c \in Categories :
        LET result == getExercisesByCategory(S(c))
            expected == {i \in 1..Len(exercises) :
                            exercises[i].val.category = S(c)}
        IN /\ Elems(result) = {exercises[i].val : i \in expected}
           /\ Len(result) = Cardinality(expected)

C6_Witness ==
    /\ lastCall.op = "update"
    /\ lastCall.kind = "Exercise"
    /\ lastCall.arg = [category |-> S("aerobic")]
    /\ Len(exercises) = 1
    /\ exercises[1].val.description = S("Lance livre")
    /\ getExercisesByCategory(S("aerobic")) = <<exercises[1].val>>
    /\ getExercisesByCategory(S("basketball")) = <<>>

(***************************************************************************)
(* C7: at time now, getUpcomingEvents() holds exactly the stored events    *)
(* with startDate strictly after now; startDate = now is excluded.         *)
(***************************************************************************)
C7_UpcomingStrict ==
    LET result == getUpcomingEvents
        expected == {i \in 1..Len(events) : events[i].val.startDate.n > now}
    IN /\ Elems(result) = {events[i].val : i \in expected}
       /\ Len(result) = Cardinality(expected)
       /\ \A i \in 1..Len(events) :
              events[i].val.startDate = D(now) => events[i].val \notin Elems(result)

C7_Witness ==
    /\ Len(events) = 2
    /\ now > 0
    /\ events[1].val.startDate.n > now
    /\ events[2].val.startDate = D(now)
    /\ getUpcomingEvents = <<events[1].val>>

(***************************************************************************)
(* C8: a gallery item created with album omitted is stored with album      *)
(* "general" and getGalleryItemsByAlbum("general") includes it.            *)
(***************************************************************************)
C8_AlbumDefault ==
    (/\ lastCall.op = "create"
     /\ lastCall.kind = "GalleryItem"
     /\ "album" \notin DOMAIN lastCall.arg)
        => /\ getGalleryItem(lastCall.ret.id).album = S("general")
           /\ lastCall.ret \in Elems(getGalleryItemsByAlbum(S("general")))

(***************************************************************************)
(* C9: an athlete created with overallPerformance omitted is stored with   *)
(* overallPerformance "0".                                                 *)
(***************************************************************************)
C9_PerformanceDefault ==
    (/\ lastCall.op = "create"
     /\ lastCall.kind = "Athlete"
     /\ "overallPerformance" \notin DOMAIN lastCall.arg)
        => getAthlete(lastCall.ret.id).overallPerformance = S("0")

(***************************************************************************)
(* C10: an event created with mandatory omitted is stored with mandatory   *)
(* false; a live stream created with isActive and category omitted is      *)
(* stored with isActive false and category "nbb".                          *)
(***************************************************************************)
C10_FlagDefaults ==
    /\ (/\ lastCall.op = "create"
        /\ lastCall.kind = "Event"
        /\ "mandatory" \notin DOMAIN lastCall.arg)
           => getEvent(lastCall.ret.id).mandatory = B(FALSE)
    /\ (/\ lastCall.op = "create"
        /\ lastCall.kind = "LiveStream"
        /\ "isActive" \notin DOMAIN lastCall.arg
        /\ "category" \notin DOMAIN lastCall.arg)
           => /\ getLiveStream(lastCall.ret.id).isActive = B(FALSE)
              /\ getLiveStream(lastCall.ret.id).category = S("nbb")

\* C11: after every create, whatever subset of the optional fields the input
\* leaves absent (or undefined), the record stored under the generated id is
\* the returned one, and every stored record carries every column of its
\* kind with a value other than undefined.
C11_CreateFillsOptionals ==
    lastCall.op = "create" =>
        /\ MapGet(KindMap(containers, lastCall.kind), lastCall.id) = lastCall.ret
        /\ \A kind \in PointLookupKinds \cup {"BestOfWeek"} :
               \A stored \in Elems(MapValues(KindMap(containers, kind))) :
                   \A f \in Columns(kind) :
                       f \in DOMAIN stored /\ stored[f] # Undefined

\* an exercise created from the required fields and an undefined description
\* has null in its three optional columns
C11_Witness ==
    /\ lastCall.op = "create"
    /\ lastCall.kind = "Exercise"
    /\ DOMAIN lastCall.arg = {"name", "category", "createdBy", "description"}
    /\ lastCall.arg.description = Undefined
    /\ LET stored == MapGet(exercises, lastCall.id)
       IN stored.description = Null /\ stored.videoUrl = Null /\ stored.metrics = Null

\* C12: identifiers are unique and immutable: in every reachable state each
\* stored record's id field equals the key it is stored under, and no two
\* stored records of a kind share an id.  (Violated: update spreads an id
\* carried by the partial over the record's own.)
C12_IdsUniqueImmutable ==
    \A kind \in PointLookupKinds \cup {"BestOfWeek"} :
        LET m == KindMap(containers, kind)
        IN /\ \A i \in 1..Len(m) : m[i].val.id = m[i].key
           /\ \A i, j \in 1..Len(m) : m[i].val.id = m[j].val.id => i = j

\* C13: every create, update and delete on one kind leaves the containers of
\* all other kinds unchanged, and deleteAthlete(id) removes exactly the entry
\* of that id from the athletes: users, training sessions and best-of-week
\* records, those referencing the deleted athlete included, stay as they were.
C13_OtherKindsUnchanged ==
    [][IsCall =>
          /\ \A kind \in PointLookupKinds \cup {"BestOfWeek"} :
                 kind # lastCall'.kind =>
                     KindMap(containers', kind) = KindMap(containers, kind)
          /\ (lastCall'.kind = "Athlete" /\ lastCall'.op = "delete") =>
                 athletes' = SelectSeq(athletes,
                                       LAMBDA e : e.key # lastCall'.id)]_vars

\* the seeded athlete was deleted; its user, the training session and the
\* best-of-week record that name it are still stored
C13_Witness ==
    /\ lastCall.kind = "Athlete" /\ lastCall.op = "delete"
    /\ lastCall.ret = B(TRUE)
    /\ getAthlete(lastCall.id) = Undefined
    /\ getUser(Uuid(2)) = athleteUser
    /\ \E i \in 1..Len(trainingSessions) :
           trainingSessions[i].val.athleteId = lastCall.id
    /\ \E i \in 1..Len(bestOfWeeks) : bestOfWeeks[i].val.athleteId = lastCall.id

\* C14: right after construction the store holds exactly two users, "admin"
\* with role admin and "joao" with role athlete, exactly one athlete, whose
\* userId is the id of "joao", and nothing of the other six kinds; and the
\* seeding never runs again: every identifier generated after construction,
\* and every record stored under one, comes from a create call.
C14_SeededOnce ==
    /\ calls = 0 =>
           /\ Len(users) = 2
           /\ getUserByUsername(S("admin")) # Undefined
           /\ getUserByUsername(S("admin")).role = S("admin")
           /\ getUserByUsername(S("joao")) # Undefined
           /\ getUserByUsername(S("joao")).role = S("athlete")
           /\ Len(athletes) = 1
           /\ athletes[1].val.userId = getUserByUsername(S("joao")).id
           /\ \A kind \in {"Exercise", "TrainingSession", "Event", "GalleryItem",
                            "BestOfWeek", "LiveStream"} :
                  KindMap(containers, kind) = <<>>
    /\ uuidCount = 3 + Cardinality(created)
    /\ \A kind \in PointLookupKinds \cup {"BestOfWeek"} :
           MapKeys(KindMap(containers, kind)) \subseteq
               SeededIds(kind) \cup {c[2] : c \in {e \in created : e[1] = kind}}

\* two users were created after construction: the store holds the two seeded
\* users, the two created ones and the one seeded athlete
C14_Witness ==
    /\ Cardinality(created) = 2
    /\ Len(users) = 4
    /\ users[1].val = adminUser /\ users[2].val = athleteUser
    /\ {users[3].key, users[4].key} = {c[2] : c \in created}
    /\ athletes = MapSet(<<>>, Uuid(3), seedAthlete)

\* C15: in every state reached through the routes no two users share a
\* username and no two share an email; and a register request whose
\* username or email is already stored is answered with status 400 and
\* leaves the users and the athletes as they were.
C15_UniqueUsers ==
    /\ [](\A i, j \in 1..Len(users) :
             i # j => /\ users[i].val.username # users[j].val.username
                      /\ users[i].val.email # users[j].val.email)
    /\ [][(/\ IsCall
           /\ lastCall'.op = "POST /api/auth/register"
           /\ Conforms(lastCall'.arg, insertUserSchema)
           /\ \E i \in 1..Len(users) :
                  \/ users[i].val.username = lastCall'.arg.username
                  \/ users[i].val.email = lastCall'.arg.email)
          => /\ lastCall'.ret.status = 400
             /\ users' = users
             /\ athletes' = athletes]_vars

\* a register request with a new username and the email of a user registered
\* before it was answered with 400; only that earlier user and its athlete
\* profile were added to the seeded store
C15_Witness ==
    /\ lastCall.op = "POST /api/auth/register"
    /\ lastCall.ret.status = 400
    /\ getUserByUsername(lastCall.arg.username) = Undefined
    /\ getUserByEmail(lastCall.arg.email) # Undefined
    /\ getUserByEmail(lastCall.arg.email).id \notin SeededIds("User")
    /\ Len(users) = 3
    /\ Len(athletes) = 2

\* C16: in every reachable state every stored athlete's userId is the id of
\* a stored user.  (Violated: createAthlete stores whatever userId it is
\* given.)
C16_AthleteUserExists ==
    \A i \in 1..Len(athletes) : getUser(athletes[i].val.userId) # Undefined

\* C17: in every reachable state no two stored athletes have the same
\* userId, so that getAthleteByUserId(u) is the only athlete of user u.
\* (Violated: createAthlete does not look for an athlete of the same user.)
C17_OneAthletePerUser ==
    \A i, j \in 1..Len(athletes) :
        athletes[i].val.userId = athletes[j].val.userId => i = j

\* C18: in every reachable state at most one stored best-of-week record has
\* a weekStart equal to the start of the week containing now.  (Violated:
\* setBestOfWeek adds a record on every call.)
C18_OneCurrentPerWeek ==
    Cardinality({i \in 1..Len(bestOfWeeks) :
                    bestOfWeeks[i].val.weekStart.n = getStartOfWeek(D(now)).n}) <= 1

\* C19: the start of the week of now is the Sunday midnight at or before
\* now; getCurrentBestOfWeek() returns a record exactly when some stored
\* weekStart equals that instant, and then the earliest inserted of those;
\* a weekStart elsewhere in the current week does not count.
C19_CurrentIsFirstExactMatch ==
    LET week == DaysPerWeek * TicksPerDay
        currentWeekStart == getStartOfWeek(D(now)).n
        matches == {i \in 1..Len(bestOfWeeks) :
                       bestOfWeeks[i].val.weekStart.n = currentWeekStart}
    IN /\ SinceSunday(currentWeekStart) % week = 0
       /\ currentWeekStart <= now /\ now < currentWeekStart + week
       /\ (getCurrentBestOfWeek # Undefined) <=> (matches # {})
       /\ matches # {} =>
              \E i \in matches :
                  /\ \A j \in matches : i <= j
                  /\ getCurrentBestOfWeek = bestOfWeeks[i].val

\* two records of the current week are stored, the second one with
\* achievements; the lookup returns the first
C19_Witness ==
    /\ Len(bestOfWeeks) = 2
    /\ bestOfWeeks[1].val.weekStart = getStartOfWeek(D(now))
    /\ bestOfWeeks[2].val.weekStart = getStartOfWeek(D(now))
    /\ bestOfWeeks[1].val.achievements = Null
    /\ bestOfWeeks[2].val.achievements # Null
    /\ getCurrentBestOfWeek = bestOfWeeks[1].val

\* C20: in every reachable state getActiveLiveStreams() returns exactly the
\* stored live streams whose isActive is true; a stream that create or
\* update returns with isActive true is in it, and after an update that
\* sets isActive to false, or a delete, it holds the active streams stored
\* under the other ids and nothing else.
C20_ActiveExact ==
    /\ [](getActiveLiveStreams =
             SelectSeq(MapValues(liveStreams),
                       LAMBDA stream : stream.isActive = B(TRUE)))
    /\ [][(IsCall /\ lastCall'.kind = "LiveStream") =>
             LET ret == lastCall'.ret
                 others ==
                     SelectSeq(liveStreams,
                               LAMBDA e : /\ e.key # lastCall'.id
                                          /\ e.val.isActive = B(TRUE))
             IN /\ (/\ lastCall'.op \in {"create", "update"}
                     /\ ret # Undefined
                     /\ ret.isActive = B(TRUE))
                    => ret \in Elems(getActiveLiveStreams')
                /\ (\/ lastCall'.op = "delete"
                     \/ /\ lastCall'.op = "update"
                        /\ ret # Undefined
                        /\ ret.isActive = B(FALSE))
                    => getActiveLiveStreams' = MapValues(others)]_vars

\* a stream created active was updated with isActive false: it is stored
\* and no longer among the active ones
C20_Witness ==
    /\ lastCall.kind = "LiveStream" /\ lastCall.op = "update"
    /\ lastCall.arg = [isActive |-> B(FALSE)]
    /\ lastCall.ret # Undefined
    /\ getLiveStream(lastCall.id) = lastCall.ret
    /\ lastCall.ret.scheduledFor # Null
    /\ lastCall.ret.isActive = B(FALSE)
    /\ getActiveLiveStreams = <<>>

\* C23: createUser checks no uniqueness: called with the username or email
\* of a stored user it still stores a further user under the new id; and
\* getUserByUsername / getUserByEmail return the earliest inserted of the
\* users that match, never a later duplicate.
C23_CreateUserFirstMatch ==
    /\ (lastCall.kind = "User" /\ lastCall.op = "create") =>
           /\ getUser(lastCall.id) = lastCall.ret
           /\ lastCall.ret.username = lastCall.arg.username
           /\ lastCall.ret.email = lastCall.arg.email
    /\ \A i \in 1..Len(users) :
           LET user == users[i].val
               sameName == {j \in 1..Len(users) :
                               users[j].val.username = user.username}
               sameEmail == {j \in 1..Len(users) :
                                users[j].val.email = user.email}
           IN /\ \E j \in sameName :
                     /\ \A k \in sameName : j <= k
                     /\ getUserByUsername(user.username) = users[j].val
              /\ \E j \in sameEmail :
                     /\ \A k \in sameEmail : j <= k
                     /\ getUserByEmail(user.email) = users[j].val

\* a user with the username and email of the seeded administrator was
\* created; both lookups still return the seeded one
C23_Witness ==
    /\ lastCall.kind = "User" /\ lastCall.op = "create"
    /\ lastCall.arg.username = adminUser.username
    /\ lastCall.arg.email = adminUser.email
    /\ Len(users) = 3
    /\ users[3].val = lastCall.ret
    /\ getUserByUsername(S("admin")) = adminUser
    /\ getUserByEmail(S("admin@lions.com")) = adminUser

\* C24: every create stores each field supplied in its input with exactly
\* the supplied value, falsy values included (false for mandatory or
\* isActive, the empty string for a text).  (Violated: the creates store
\* `input.field || null`, which turns a supplied false or "" into null.)
C24_SuppliedValuesStored ==
    lastCall.op = "create" =>
        LET stored == MapGet(KindMap(containers, lastCall.kind), lastCall.id)
        IN \A f \in DOMAIN lastCall.arg : stored[f] = lastCall.arg[f]

\* C30: while only the clock advances, getUpcomingEvents() only shrinks:
\* every event returned at the later time was returned at the earlier one;
\* and getUpcomingEvents() is always among getAllEvents().
C30_UpcomingShrinks ==
    /\ [](Elems(getUpcomingEvents) \subseteq Elems(getAllEvents))
    /\ [][(now' > now /\ events' = events) =>
             Elems(getUpcomingEvents') \subseteq Elems(getUpcomingEvents)]_vars

\* the clock has reached the start of the only stored event: it is no longer
\* upcoming, though still among all events
C30_Witness ==
    /\ now > 0
    /\ Len(events) = 1
    /\ events[1].val.startDate = D(now)
    /\ getUpcomingEvents = <<>>
    /\ getAllEvents = <<events[1].val>>

C21_NotFoundIs404 ==
    /\ [](\A id \in AllIds :
             /\ getUsersId(id).status = IF MapHas(users, id) THEN 200 ELSE 404
             /\ getAthletesId(id).status =
                    IF MapHas(athletes, id) THEN 200 ELSE 404)
    /\ [][(IsCall /\ lastCall'.op \in Routes.put \cup Routes.delete) =>
             LET kind == lastCall'.kind
                 id == lastCall'.id
                 status == lastCall'.ret.status
                 existed == MapHas(KindMap(containers, kind), id)
             IN /\ (status = 404) <=> ~existed
                /\ (lastCall'.op \in Routes.put /\ existed) => status = 200
                /\ (lastCall'.op \in Routes.delete /\ existed) =>
                       /\ status = 204
                       /\ ~MapHas(KindMap(containers', kind), id)
                /\ (lastCall'.op \in Routes.delete /\ <<kind, id>> \in deleted)
                       => status = 404]_vars

\* the seeded athlete was deleted by one request; the same request, sent a
\* second time, was answered with 404, as is a GET of the id
C21_Witness ==
    /\ lastCall.op = "DELETE /api/athletes/:id"
    /\ lastCall.id = seedAthlete.id
    /\ lastCall.ret.status = 404
    /\ calls = 2
    /\ deleted = {<<"Athlete", seedAthlete.id>>}
    /\ getAthletesId(seedAthlete.id).status = 404

\* C22: a POST or PUT request whose body does not conform to the schema of
\* the entity is answered with a client-error status and leaves the store
\* as it was.  (Violated: the PUT routes hand req.body to the store as it
\* comes.)
C22_MalformedRejected ==
    [][(IsCall /\ lastCall'.op \in Routes.post \cup Routes.put) =>
          LET schema == SchemaOf(lastCall'.kind)
              body == lastCall'.arg
              conforms ==
                  IF lastCall'.op \in Routes.post
                  THEN Conforms(body, schema)
                  ELSE Conforms(body,
                                [required |-> EmptyObj,
                                 optional |-> Spread(schema.required,
                                                     schema.optional)])
          IN ~conforms => /\ lastCall'.ret.status \in 400..499
                          /\ containers' = containers]_vars

\* C25: after a register request answered with 201, the stored user with
\* role "athlete", given or filled in by the default, has an athlete
\* profile with its id as userId and overallPerformance "0"; one with role
\* "admin" has none.  (Violated: the route creates the profile only when
\* the role is in the body.)
C25_AthleteProfileOnRegister ==
    (lastCall.op = "POST /api/auth/register" /\ lastCall.ret.status = 201) =>
        LET user == getUser(lastCall.id)
            profiles == {i \in 1..Len(athletes) :
                            athletes[i].val.userId = user.id}
        IN /\ user.role = S("athlete") =>
                  \E i \in profiles :
                      athletes[i].val.overallPerformance = S("0")
           /\ user.role = S("admin") => profiles = {}

\* C26: every stored user, registered through the route or seeded, logs in
\* with its username and password: status 200 and its id; a login with a
\* username and a password of which the username matches no user or the
\* password is not the stored one is answered with 401.  (Violated: register
\* accepts an empty password or username, login answers 400 to it.)
C26_LoginAfterRegister ==
    /\ \A i \in 1..Len(users) :
           LET user == users[i].val
               res == postAuthLogin([username |-> user.username,
                                     password |-> user.password])
           IN res.status = 200 /\ res.body.user.id = user.id
    /\ \A body \in LoginBodies :
           (/\ DOMAIN body = {"username", "password"}
            /\ Truthy(body.username) /\ Truthy(body.password)
            /\ \/ getUserByUsername(body.username) = Undefined
               \/ getUserByUsername(body.username).password # body.password)
           => postAuthLogin(body).status = 401

\* C27: no response of the route layer carries the password of a user:
\* login, register, GET /api/users/:id, GET /api/athletes, GET
\* /api/athletes/:id and GET /api/best-of-week.  (Violated: the GET routes
\* send the stored user record.)
C27_NoPasswordInResponses ==
    /\ \A body \in LoginBodies :
           postAuthLogin(body).status = 200 =>
               "password" \notin DOMAIN postAuthLogin(body).body.user
    /\ (lastCall.op = "POST /api/auth/register" /\ lastCall.ret.status = 201)
           => "password" \notin DOMAIN lastCall.ret.body.user
    /\ \A id \in AllIds :
           /\ getUsersId(id).status = 200 =>
                  "password" \notin DOMAIN getUsersId(id).body
           /\ getAthletesId(id).status = 200 =>
                  "password" \notin DOMAIN getAthletesId(id).body.user
    /\ \A i \in 1..Len(getAthletes.body) :
           "password" \notin DOMAIN getAthletes.body[i].user
    /\ getBestOfWeek.status = 200 =>
           "password" \notin DOMAIN getBestOfWeek.body.athlete.user

====
